---- MODULE Spec2Model ----
(***************************************************************************)
(* MyDataWarehouse (src/my_data_warehouse.py): a partitioned store with an *)
(* insert buffer, per-partition zone maps (min/max per column), zone-map   *)
(* pruning and an LRU cache of partition tables.                           *)
(*                                                                         *)
(* Strings are sequences of decimal digits (<<1,0>> is "10"), compared as  *)
(* Python compares str: lexicographically.  The column "id" holds strings  *)
(* ("ids arrive as strings", line 58); the column "qty" holds integers, so *)
(* Arrow types it int64 and pc.min_max orders it numerically.  A partition *)
(* path part_{idx:05d}.parquet is modelled by its number idx.              *)
(***************************************************************************)
EXTENDS Integers, Sequences, FiniteSets, TLC

\* ---------------------------------------------------------------- bounds
PartitionSize == 2
MaxAdds == 4

\* ------------------------------------------------------ program constants
CacheCapacity == 3
PadWidth == 8

\* ---------------------------------------------------------------- inputs
Columns == {"id", "qty"}
\* the key columns of update, delete and query: those of the rows, and one
\* ("email") that no stored row has
KeyColumns == Columns \cup {"email"}
\* the rows add_data is called with: {"id": "9", "qty": 9}, {"id": "10", "qty": 10}
Rows == {[id |-> <<9>>, qty |-> 9], [id |-> <<1, 0>>, qty |-> 10]}
\* the key values, already strings (str(k) of a str is k): "9", "10"
KeyValues == {<<9>>, <<1, 0>>}
\* the key lists of query_data: [], ["9"], ["10"], ["9", "10"]
KeyLists == {<<>>, <<<<9>>>>, <<<<1, 0>>>>, <<<<9>>, <<1, 0>>>>}
\* the patches of update_data: {"qty": 10}, {"id": "10"}
Patches == {[qty |-> 10], [id |-> <<1, 0>>]}

\* ------------------------------------------------------- string functions
RECURSIVE Digits(_)
\* str(n) of a non-negative int: its decimal digits
Digits(n) == IF n < 10 THEN <<n>> ELSE Append(Digits(n \div 10), n % 10)

RECURSIVE Zfill(_, _)
\* s.zfill(w): zeros on the left up to width w; longer strings are unchanged
Zfill(s, w) == IF Len(s) >= w THEN s ELSE Zfill(<<0>> \o s, w)

RECURSIVE StrLess(_, _)
\* a < b on Python str: lexicographic, a proper prefix is smaller
StrLess(a, b) ==
    IF b = <<>> THEN FALSE
    ELSE IF a = <<>> THEN TRUE
    ELSE IF Head(a) # Head(b) THEN Head(a) < Head(b)
    ELSE StrLess(Tail(a), Tail(b))

StrLeq(a, b) == a = b \/ StrLess(a, b)

\* min(...) / max(...) of a non-empty collection of str
StrMin(S) == CHOOSE x \in S : \A y \in S : StrLeq(x, y)
StrMax(S) == CHOOSE x \in S : \A y \in S : StrLeq(y, x)

\* min / max of a non-empty collection of int (pc.min_max on an int64 column)
IntMin(S) == CHOOSE x \in S : \A y \in S : x <= y
IntMax(S) == CHOOSE x \in S : \A y \in S : y <= x

Range(s) == {s[i] : i \in 1..Len(s)}

\* the string form of a cell of column col: str(x) / pc.cast(.., pa.string())
CellStr(col, v) == IF col = "qty" THEN Digits(v) ELSE v

\* ------------------------------------------------------------------ state
VARIABLES partition_size, buffer, buffer_rows, metadata, partitions, cache,
          files, added, last, result

vars == <<partition_size, buffer, buffer_rows, metadata, partitions, cache,
          files, added, last, result>>

\* the instance as one value, so that the methods are operators on it
W == [partition_size |-> partition_size, buffer |-> buffer, buffer_rows |-> buffer_rows, metadata |-> metadata,
      partitions |-> partitions, cache |-> cache, files |-> files]

EmptyMap == [p \in {} |-> <<>>]

\* the constructor: it stores partition_size as given and never raises
__init__(size) ==
    [raised |-> FALSE,
     w |-> [partition_size |-> size, buffer |-> <<>>, buffer_rows |-> 0,
            metadata |-> EmptyMap, partitions |-> <<>>, cache |-> <<>>,
            files |-> EmptyMap]]

\* the state after MyDataWarehouse(partition_size=size, storage_dir=...)
InitWith(size) ==
    LET made == __init__(size) IN
    /\ partition_size = made.w.partition_size
    /\ buffer = made.w.buffer
    /\ buffer_rows = made.w.buffer_rows
    /\ metadata = made.w.metadata
    /\ partitions = made.w.partitions
    /\ cache = made.w.cache
    /\ files = made.w.files
    /\ added = 0
    /\ last = [op |-> "init", key_column |-> "", keys |-> <<>>, raised |-> made.raised]
    /\ result = <<>>

Init == InitWith(PartitionSize)

\* the partition sizes a caller may construct with, the non-positive included
ConfigSizes == (0 - 1)..PartitionSize

InitConfig == \E size \in ConfigSizes : InitWith(size)

\* --------------------------------------------------------------- methods
_next_partition_path(w) == Len(w.partitions)

CachePaths(c) == {c[i].path : i \in 1..Len(c)}
CacheWithout(c, path) == SelectSeq(c, LAMBDA e : e.path # path)
CacheTable(c, path) == (CHOOSE e \in Range(c) : e.path = path).table
\* Evict without the eviction loop
Evict_Never(c) == c

\* while len(cache) > capacity: popitem(last=False)
Evict(c) ==
    IF Len(c) > CacheCapacity THEN SubSeq(c, Len(c) - CacheCapacity + 1, Len(c))
    ELSE c

\* _read_partition without move_to_end on a hit
_read_partition_NoMoveToEnd(w, path) ==
    IF path \in CachePaths(w.cache)
    THEN [w |-> w, table |-> CacheTable(w.cache, path), raised |-> FALSE]
    ELSE IF path \notin DOMAIN w.files
    THEN [w |-> w, table |-> <<>>, raised |-> TRUE]
    ELSE [w |-> [w EXCEPT !.cache = Evict(Append(w.cache,
                                  [path |-> path, table |-> w.files[path]]))],
          table |-> w.files[path], raised |-> FALSE]

\* returns the table, the instance after the call, and whether
\* pq.read_table raised (the file does not exist)
_read_partition(w, path) ==
    IF path \in CachePaths(w.cache)
    THEN [w |-> [w EXCEPT !.cache = Append(CacheWithout(w.cache, path),
                                  [path |-> path, table |-> CacheTable(w.cache, path)])],
          table |-> CacheTable(w.cache, path), raised |-> FALSE]
    ELSE IF path \notin DOMAIN w.files
    THEN [w |-> w, table |-> <<>>, raised |-> TRUE]
    ELSE [w |-> [w EXCEPT !.cache = Evict(Append(w.cache,
                                  [path |-> path, table |-> w.files[path]]))],
          table |-> w.files[path], raised |-> FALSE]

\* ColumnMeta without zfill(8) on the id strings
ColumnMeta_NoPad(table, col) ==
    IF col = "id"
    THEN LET padded == {CellStr(col, table[i][col]) : i \in 1..Len(table)}
         IN IF padded # {}
            THEN [min |-> StrMin(padded), max |-> StrMax(padded), num_rows |-> Len(table)]
            ELSE [min |-> <<>>, max |-> <<>>, num_rows |-> 0]
    ELSE LET vals == {table[i][col] : i \in 1..Len(table)}
         IN [min |-> IntMin(vals), max |-> IntMax(vals), num_rows |-> Len(table)]

ColumnMeta(table, col) ==
    IF col = "id"
    THEN LET padded == {Zfill(CellStr(col, table[i][col]), PadWidth) : i \in 1..Len(table)}
         IN IF padded # {}
            THEN [min |-> StrMin(padded), max |-> StrMax(padded), num_rows |-> Len(table)]
            ELSE [min |-> <<>>, max |-> <<>>, num_rows |-> 0]
    ELSE LET vals == {table[i][col] : i \in 1..Len(table)}
         IN [min |-> IntMin(vals), max |-> IntMax(vals), num_rows |-> Len(table)]

_update_metadata(w, table, path) ==
    LET partition_meta == [col \in Columns |-> ColumnMeta(table, col)]
    IN [w EXCEPT !.metadata = [p \in DOMAIN w.metadata \cup {path} |->
                                  IF p = path THEN partition_meta ELSE w.metadata[p]]]

\* _write_partition without the cache refresh of lines 91-95
_write_partition_NoCachePut(w, table, path) ==
    LET w1 == [w EXCEPT !.files = [p \in DOMAIN w.files \cup {path} |->
                                      IF p = path THEN table ELSE w.files[p]]]
    IN _update_metadata(w1, table, path)

_write_partition(w, table, path) ==
    LET w1 == [w EXCEPT !.files = [p \in DOMAIN w.files \cup {path} |->
                                      IF p = path THEN table ELSE w.files[p]]]
        w2 == _update_metadata(w1, table, path)
    IN [w2 EXCEPT !.cache = Evict(Append(CacheWithout(w2.cache, path),
                                         [path |-> path, table |-> table]))]

\* FlushBuffer without self._buffer.clear()
FlushBuffer_KeepsBuffer(w) ==
    LET w1 == _write_partition(w, w.buffer, _next_partition_path(w))
    IN [w1 EXCEPT !.partitions = Append(w1.partitions, _next_partition_path(w)),
                  !.buffer_rows = 0]

\* the flush every method holds inline: the buffer becomes one partition
FlushBuffer(w) ==
    LET table == w.buffer
        path == _next_partition_path(w)
        w1 == _write_partition(w, table, path)
    IN [w1 EXCEPT !.partitions = Append(w1.partitions, path),
                  !.buffer = <<>>,
                  !.buffer_rows = 0]

\* if self._buffer_rows > 0: flush (the head of update, delete and query)
Flushed(w) == IF w.buffer_rows > 0 THEN FlushBuffer(w) ELSE w

add_data(w, data) ==
    LET w1 == [w EXCEPT !.buffer = Append(w.buffer, data),
                        !.buffer_rows = w.buffer_rows + 1]
    IN IF w1.buffer_rows < w.partition_size THEN w1 ELSE FlushBuffer(w1)

\* keys: the list of key strings (a single key of update/delete is the
\* one-element list [str(keys)]).  min()/max() of an empty list raise.
_trim_partitions(w, key_column, keys) ==
    IF keys = <<>> THEN [raised |-> TRUE, valid |-> <<>>]
    ELSE
    LET key_list == keys
        padded_keys == {Zfill(key_list[i], PadWidth) : i \in 1..Len(key_list)}
        key_min == IF key_column = "id" THEN StrMin(padded_keys) ELSE StrMin(Range(key_list))
        key_max == IF key_column = "id" THEN StrMax(padded_keys) ELSE StrMax(Range(key_list))
        Keep(path) ==
            IF path \notin DOMAIN w.metadata THEN TRUE
            ELSE IF key_column \notin DOMAIN w.metadata[path] THEN TRUE
            ELSE LET col_meta == w.metadata[path][key_column]
                     part_min == CellStr(key_column, col_meta.min)
                     part_max == CellStr(key_column, col_meta.max)
                 IN IF col_meta.num_rows = 0 THEN TRUE
                    ELSE ~(StrLess(key_max, part_min) \/ StrLess(part_max, key_min))
    IN [raised |-> FALSE, valid |-> SelectSeq(w.partitions, Keep)]

\* table.schema.names: Table.from_pylist takes them from the first row
Schema(table) == DOMAIN table[1]

\* the rows of table whose key_column, as a string, is one of keys
Mask(table, key_column, keys) ==
    [i \in 1..Len(table) |-> CellStr(key_column, table[i][key_column]) \in keys]

\* table.filter(mask)
Filter(table, mask) ==
    LET F[i \in 0..Len(table)] ==
            IF i = 0 THEN <<>>
            ELSE IF mask[i] THEN Append(F[i - 1], table[i]) ELSE F[i - 1]
    IN F[Len(table)]

\* KeepUnmatched without the invert: the matching rows are the ones kept
KeepUnmatched_NoInvert(table, mask) == Filter(table, mask)

\* keep = pc.invert(mask); table.filter(keep)
KeepUnmatched(table, mask) ==
    Filter(table, [i \in 1..Len(table) |-> ~mask[i]])

\* list.remove(x): drops the first occurrence
RemoveFirst(s, x) ==
    LET i == CHOOSE j \in 1..Len(s) : s[j] = x /\ \A k \in 1..(j - 1) : s[k] # x
    IN SubSeq(s, 1, i - 1) \o SubSeq(s, i + 1, Len(s))

PadKey(key_column, key_value) ==
    IF key_column = "id" THEN Zfill(key_value, PadWidth) ELSE key_value

\* PatchTable without the mask: every row of the partition is patched
PatchTable_AllRows(table, mask, updated_data) ==
    [i \in 1..Len(table) |->
        [col \in Schema(table) |->
            IF col \in DOMAIN updated_data
            THEN updated_data[col] ELSE table[i][col]]]

\* cols[col] = pc.if_else(mask, new_val, table[col]) for the patched columns
PatchTable(table, mask, updated_data) ==
    [i \in 1..Len(table) |->
        [col \in Schema(table) |->
            IF col \in DOMAIN updated_data /\ mask[i]
            THEN updated_data[col] ELSE table[i][col]]]

RECURSIVE UpdateScan(_, _, _, _, _)
\* the loop of update_data over the candidate partitions
UpdateScan(w, cands, key_column, key_value, updated_data) ==
    IF cands = <<>> THEN [w |-> w, raised |-> FALSE]
    ELSE
    LET path == Head(cands)
        rd == _read_partition(w, path)
        table == rd.table
        mask == Mask(table, key_column, {key_value})
        updated_table == PatchTable(table, mask, updated_data)
    IN IF rd.raised THEN [w |-> rd.w, raised |-> TRUE]
       ELSE IF key_column \notin Schema(table) THEN [w |-> rd.w, raised |-> TRUE]
       ELSE IF ~(\E i \in 1..Len(table) : mask[i])
       THEN UpdateScan(rd.w, Tail(cands), key_column, key_value, updated_data)
       ELSE [w |-> _write_partition(rd.w, updated_table, path), raised |-> FALSE]

update_data(w, key_column, key_value, updated_data) ==
    LET w1 == Flushed(w)
        key_value_for_trim == PadKey(key_column, key_value)
        trim == _trim_partitions(w1, key_column, <<key_value_for_trim>>)
    IN IF trim.raised THEN [w |-> w1, raised |-> TRUE]
       ELSE UpdateScan(w1, trim.valid, key_column, key_value, updated_data)

RECURSIVE DeleteScan(_, _, _, _)
\* the loop of delete_data over the candidate partitions
DeleteScan(w, cands, key_column, key_value) ==
    IF cands = <<>> THEN [w |-> w, raised |-> FALSE]
    ELSE
    LET path == Head(cands)
        rd == _read_partition(w, path)
        table == rd.table
        mask == Mask(table, key_column, {key_value})
        filtered == KeepUnmatched(table, mask)
        w1 == rd.w
    IN IF rd.raised THEN [w |-> rd.w, raised |-> TRUE]
       ELSE IF key_column \notin Schema(table) THEN [w |-> rd.w, raised |-> TRUE]
       ELSE IF ~(\E i \in 1..Len(table) : mask[i])
       THEN DeleteScan(rd.w, Tail(cands), key_column, key_value)
       ELSE IF Len(filtered) = 0
       THEN IF path \notin DOMAIN w1.files THEN [w |-> w1, raised |-> TRUE]
            ELSE [w |-> [w1 EXCEPT
                     !.files = [p \in DOMAIN w1.files \ {path} |-> w1.files[p]],
                     !.partitions = RemoveFirst(w1.partitions, path),
                     !.metadata = [p \in DOMAIN w1.metadata \ {path} |-> w1.metadata[p]],
                     !.cache = CacheWithout(w1.cache, path)],
                  raised |-> FALSE]
       ELSE [w |-> _write_partition(w1, filtered, path), raised |-> FALSE]

delete_data(w, key_column, key_value) ==
    LET w1 == Flushed(w)
        key_value_for_trim == PadKey(key_column, key_value)
        trim == _trim_partitions(w1, key_column, <<key_value_for_trim>>)
    IN IF trim.raised THEN [w |-> w1, raised |-> TRUE]
       ELSE DeleteScan(w1, trim.valid, key_column, key_value)

RECURSIVE QueryScan(_, _, _, _, _)
\* the loop of query_data over the candidate partitions
QueryScan(w, cands, key_column, key_strs, results) ==
    IF cands = <<>> THEN [w |-> w, raised |-> FALSE, results |-> results]
    ELSE
    LET path == Head(cands)
        rd == _read_partition(w, path)
        table == rd.table
        mask == Mask(table, key_column, Range(key_strs))
    IN IF rd.raised THEN [w |-> rd.w, raised |-> TRUE, results |-> <<>>]
       ELSE IF key_column \notin Schema(table)
       THEN [w |-> rd.w, raised |-> TRUE, results |-> <<>>]
       ELSE IF ~(\E i \in 1..Len(table) : mask[i])
       THEN QueryScan(rd.w, Tail(cands), key_column, key_strs, results)
       ELSE QueryScan(rd.w, Tail(cands), key_column, key_strs,
                      results \o Filter(table, mask))

query_data(w, key_column, keys) ==
    LET w1 == Flushed(w)
        key_strs == keys
        keys_for_trim ==
            IF key_column = "id"
            THEN [i \in 1..Len(key_strs) |-> Zfill(key_strs[i], PadWidth)]
            ELSE key_strs
        trim == _trim_partitions(w1, key_column, keys_for_trim)
    IN IF trim.raised THEN [w |-> w1, raised |-> TRUE, results |-> <<>>]
       ELSE QueryScan(w1, trim.valid, key_column, key_strs, <<>>)

\* ---------------------------------------------------------------- actions
\* the instance becomes w1
Becomes(w1) ==
    /\ partition_size' = w1.partition_size
    /\ buffer' = w1.buffer
    /\ buffer_rows' = w1.buffer_rows
    /\ metadata' = w1.metadata
    /\ partitions' = w1.partitions
    /\ cache' = w1.cache
    /\ files' = w1.files

AddData(data) ==
    /\ ~last.raised
    /\ added < MaxAdds
    /\ Becomes(add_data(W, data))
    /\ added' = added + 1
    /\ last' = [op |-> "add", key_column |-> "", keys |-> <<>>, raised |-> FALSE]
    /\ result' = <<>>

UpdateData(key_column, key_value, updated_data) ==
    /\ ~last.raised
    /\ LET r == update_data(W, key_column, key_value, updated_data) IN
        /\ Becomes(r.w)
        /\ last' = [op |-> "update", key_column |-> key_column,
                    keys |-> <<key_value>>, raised |-> r.raised]
    /\ result' = <<>>
    /\ UNCHANGED added

DeleteData(key_column, key_value) ==
    /\ ~last.raised
    /\ LET r == delete_data(W, key_column, key_value) IN
        /\ Becomes(r.w)
        /\ last' = [op |-> "delete", key_column |-> key_column,
                    keys |-> <<key_value>>, raised |-> r.raised]
    /\ result' = <<>>
    /\ UNCHANGED added

QueryData(key_column, keys) ==
    /\ ~last.raised
    /\ LET r == query_data(W, key_column, keys) IN
        /\ Becomes(r.w)
        /\ last' = [op |-> "query", key_column |-> key_column,
                    keys |-> keys, raised |-> r.raised]
        /\ result' = r.results
    /\ UNCHANGED added

Next ==
    \/ \E data \in Rows : AddData(data)
    \/ \E key_column \in KeyColumns, key_value \in KeyValues, updated_data \in Patches :
          UpdateData(key_column, key_value, updated_data)
    \/ \E key_column \in KeyColumns, key_value \in KeyValues :
          DeleteData(key_column, key_value)
    \/ \E key_column \in KeyColumns, keys \in KeyLists :
          QueryData(key_column, keys)

Spec == Init /\ [][Next]_vars

\* the inserts alone, with the flush a read forces: AddData and QueryData
NextInsert ==
    \/ \E data \in Rows : AddData(data)
    \/ \E key_column \in Columns, keys \in KeyLists :
          QueryData(key_column, keys)

SpecInsert == Init /\ [][NextInsert]_vars

\* the inserts of an instance constructed with any partition size
SpecConfig == InitConfig /\ [][NextInsert]_vars

\* ------------------------------------------------------------ properties
\* the rows stored under an index entry (none when its file is gone)
Stored(w, path) == IF path \in DOMAIN w.files THEN w.files[path] ELSE <<>>

Matches(table, key_column, key_value) ==
    {i \in 1..Len(table) : CellStr(key_column, table[i][key_column]) = key_value}

\* the index positions whose partition holds a row with key_column = key_value
Holders(w, key_column, key_value) ==
    {i \in 1..Len(w.partitions) :
        Matches(Stored(w, w.partitions[i]), key_column, key_value) # {}}

\* query_data without zone-map pruning: every index entry is scanned
UnprunedQuery(w, key_column, keys) ==
    LET w1 == Flushed(w)
    IN QueryScan(w1, w1.partitions, key_column, keys, <<>>)

\* C1: read-your-writes.  In every reachable state, for every row r and
\* column k, add_data(r) followed by query_data(k, [str(r[k])]) completes
\* and returns r.
C1_ReadYourWrites ==
    ~last.raised =>
        \A r \in Rows, k \in Columns :
            LET q == query_data(add_data(W, r), k, <<CellStr(k, r[k])>>)
            IN ~q.raised /\ r \in Range(q.results)

\* C2: no false negatives.  In every reachable state, for every column and
\* every non-empty key list, query_data returns exactly what a scan of every
\* indexed partition with the same row-level test returns.
C2_NoFalseNegatives ==
    ~last.raised =>
        \A k \in Columns, keys \in KeyLists \ {<<>>} :
            LET q == query_data(W, k, keys)
                u == UnprunedQuery(W, k, keys)
            IN q.raised = u.raised /\ q.results = u.results

\* C3: partition ids strictly increase.  The index, which holds the ids in
\* creation order, is strictly increasing, and the id the next flush writes
\* under is greater than every id in the index.
C3_IdsStrictlyIncrease ==
    /\ \A i, j \in 1..Len(partitions) : i < j => partitions[i] < partitions[j]
    /\ \A i \in 1..Len(partitions) : partitions[i] < _next_partition_path(W)

RECURSIVE SumRows(_, _)
SumRows(w, idx) ==
    IF idx = <<>> THEN 0 ELSE Len(Stored(w, Head(idx))) + SumRows(w, Tail(idx))

\* C4: row conservation.  Under inserts and the flushes reads force, the rows
\* of all indexed partitions plus the buffered rows are as many as were added.
C4_RowConservation ==
    SumRows(W, partitions) + Len(buffer) = added

\* C4's case: two flushes have happened (one at capacity, one forced by a
\* read) and a row is buffered again.
C4_Witness ==
    /\ Len(partitions) = 2
    /\ Len(buffer) = 1
    /\ added = 4
    /\ last.op = "add"

Patched(row, patch) ==
    [col \in Columns |-> IF col \in DOMAIN patch THEN patch[col] ELSE row[col]]

\* C6: in every reachable state where a stored or buffered row has column k
\* equal to v, update_data(k, v, patch) with a patch that leaves column k at v,
\* followed by query_data(k, [v]), completes and returns every matching row of
\* the first partition that holds a match, patched.
C6_UpdateThenQuery ==
    ~last.raised =>
        \A k \in Columns, v \in KeyValues, patch \in Patches :
            LET w1 == Flushed(W)
                holders == Holders(w1, k, v)
                first == CHOOSE i \in holders : \A j \in holders : i <= j
                table == Stored(w1, w1.partitions[first])
                u == update_data(W, k, v, patch)
                q == query_data(u.w, k, <<v>>)
            IN (holders # {} /\ (k \in DOMAIN patch => CellStr(k, patch[k]) = v))
                   => /\ ~u.raised
                      /\ ~q.raised
                      /\ \A i \in Matches(table, k, v) :
                            Patched(table[i], patch) \in Range(q.results)

\* C7: no indexed partition has zero rows, and when delete_data removes the
\* last rows of a partition (its file goes), the id is nowhere in the index,
\* the zone map or the cache afterwards.
C7_EmptiedPartitionRemoved ==
    /\ \A i \in 1..Len(partitions) : Len(Stored(W, partitions[i])) > 0
    /\ ~last.raised =>
          \A k \in Columns, v \in KeyValues :
              LET d == delete_data(W, k, v)
              IN ~d.raised =>
                    \A p \in DOMAIN Flushed(W).files \ DOMAIN d.w.files :
                        /\ p \notin Range(d.w.partitions)
                        /\ p \notin DOMAIN d.w.metadata
                        /\ p \notin CachePaths(d.w.cache)

\* C8: cache coherence.  Every cached table is the table stored under its
\* path, so a read through the cache returns the current rows.
C8_CacheCoherence ==
    \A e \in Range(cache) : e.path \in DOMAIN files /\ files[e.path] = e.table

\* C8's case: an update has just rewritten a partition (a patched row, which
\* no insert produces, is stored) and the cache holds that partition.
C8_Witness ==
    /\ last.op = "update"
    /\ ~last.raised
    /\ \E e \in Range(cache) :
          /\ [id |-> <<9>>, qty |-> 10] \in Range(e.table)
          /\ e.path \in DOMAIN files
          /\ files[e.path] = e.table

\* C9: the cache never holds more than its capacity.
C9_CacheBounded == Len(cache) <= CacheCapacity

\* C9's case: four partitions exist, the cache is full and one was evicted.
C9_Witness ==
    /\ Len(cache) = CacheCapacity
    /\ Cardinality(DOMAIN files) = CacheCapacity + 1
    /\ \E p \in DOMAIN files : p \notin CachePaths(cache)

\* C10: zone-map soundness.  For every indexed partition with a zone map,
\* every column c and row r: min <= key(r[c]) <= max, in the order and with
\* the key (string form, zero-padded for id) that pruning compares by.
C10_ZoneMapSound ==
    \A i \in 1..Len(partitions) :
        LET p == partitions[i] IN
        (p \in DOMAIN metadata /\ p \in DOMAIN files) =>
            \A c \in Columns, j \in 1..Len(files[p]) :
                LET key == PadKey(c, CellStr(c, files[p][j][c]))
                IN /\ StrLeq(CellStr(c, metadata[p][c].min), key)
                   /\ StrLeq(key, CellStr(c, metadata[p][c].max))

\* C11: for a key column that no partition's schema has, update_data,
\* delete_data and query_data raise nothing; update and delete leave every
\* partition as it is (after the flush) and the query returns no rows.
C11_MissingKeyColumnNeverMatches ==
    ~last.raised =>
        \A k \in KeyColumns \ Columns, v \in KeyValues, patch \in Patches :
            LET w1 == Flushed(W)
                u == update_data(W, k, v, patch)
                d == delete_data(W, k, v)
                q == query_data(W, k, <<v>>)
            IN /\ ~u.raised /\ u.w.files = w1.files /\ u.w.partitions = w1.partitions
               /\ ~d.raised /\ d.w.files = w1.files /\ d.w.partitions = w1.partitions
               /\ ~q.raised /\ q.results = <<>>

\* C12: constructing with partition_size <= 0 fails, so an instance with
\* partition_size <= 0 never accepts an add_data call.
C12_InvalidConfigurationRejected ==
    partition_size <= 0 => (last.op # "add" /\ added = 0)

\* the ids of the index in order, each once (at its first position)
LivePaths(w) ==
    LET idx == w.partitions
    IN SelectSeq([i \in 1..Len(idx) |-> [at |-> i, path |-> idx[i]]],
                 LAMBDA e : \A j \in 1..(e.at - 1) : idx[j] # e.path)

RECURSIVE MatchingRows(_, _, _, _)
\* the rows of the partitions in live whose key_column, as a string, is in
\* keys: partition after partition, in row order
MatchingRows(w, live, key_column, keys) ==
    IF live = <<>> THEN <<>>
    ELSE LET table == Stored(w, Head(live).path)
         IN SelectSeq(table, LAMBDA r : CellStr(key_column, r[key_column]) \in keys)
                \o MatchingRows(w, Tail(live), key_column, keys)

\* C13: query_data completes and returns exactly the stored rows whose key
\* column, as a string, is one of the keys: each stored occurrence once,
\* ordered by the partition's position in the index and then by row.
C13_QueryReturnsExactlyMatches ==
    ~last.raised =>
        \A k \in Columns, keys \in KeyLists \ {<<>>} :
            LET w1 == Flushed(W)
                q == query_data(W, k, keys)
            IN /\ ~q.raised
               /\ q.results = MatchingRows(w1, LivePaths(w1), k, Range(keys))

\* C14: the buffer is always shorter than partition_size (> 0).  An add_data
\* that brings it to partition_size leaves it empty and appends to the index
\* one new partition holding the buffered rows in insertion order; any other
\* add_data changes only the buffer.
C14_BufferBelowCapacity ==
    partition_size > 0 =>
        /\ Len(buffer) < partition_size
        /\ buffer_rows = Len(buffer)
        /\ ~last.raised =>
              \A r \in Rows :
                  LET a == add_data(W, r)
                      new == a.partitions[Len(a.partitions)]
                  IN IF Len(buffer) + 1 = partition_size
                     THEN /\ a.buffer = <<>>
                          /\ a.buffer_rows = 0
                          /\ a.partitions = Append(partitions, new)
                          /\ new \notin Range(partitions)
                          /\ Stored(a, new) = Append(buffer, r)
                     ELSE a = [W EXCEPT !.buffer = Append(buffer, r),
                                        !.buffer_rows = buffer_rows + 1]

\* the candidates of update_data and delete_data for one key, after the flush
Candidates(w, key_column, key_value) ==
    _trim_partitions(Flushed(w), key_column, <<PadKey(key_column, key_value)>>).valid

\* the positions of cands whose partition holds a row with that key
Hits(w, cands, key_column, key_value) ==
    {i \in 1..Len(cands) : Matches(Stored(w, cands[i]), key_column, key_value) # {}}

\* C15: update_data changes at most one partition.  Of the candidates, in
\* index order, the first that holds a row with the key is rewritten with the
\* patch applied to its matching rows and its other rows, row count and order
\* unchanged; every other partition and the index stay as they are.  With no
\* such candidate, or when the scan raises first, nothing is rewritten.
C15_UpdateFirstMatchOnly ==
    ~last.raised =>
        \A k \in Columns, v \in KeyValues, patch \in Patches :
            LET w1 == Flushed(W)
                cands == Candidates(W, k, v)
                hits == Hits(w1, cands, k, v)
                first == cands[CHOOSE i \in hits : \A j \in hits : i <= j]
                old == Stored(w1, first)
                u == update_data(W, k, v, patch)
            IN /\ u.w.partitions = w1.partitions
               /\ DOMAIN u.w.files = DOMAIN w1.files
               /\ IF hits = {} \/ u.raised THEN u.w.files = w1.files
                  ELSE /\ \A p \in DOMAIN w1.files \ {first} :
                             u.w.files[p] = w1.files[p]
                       /\ Len(u.w.files[first]) = Len(old)
                       /\ \A i \in 1..Len(old) :
                             u.w.files[first][i] =
                                 IF i \in Matches(old, k, v)
                                 THEN Patched(old[i], patch) ELSE old[i]

\* C15's case: two candidates hold the key, the first also holds a row
\* without it, and the update rewrites the first.
C15_Witness ==
    /\ ~last.raised
    /\ \E k \in Columns, v \in KeyValues, patch \in Patches :
          LET w1 == Flushed(W)
              cands == Candidates(W, k, v)
              hits == Hits(w1, cands, k, v)
              first == cands[CHOOSE i \in hits : \A j \in hits : i <= j]
              u == update_data(W, k, v, patch)
          IN /\ Cardinality(hits) >= 2
             /\ ~u.raised
             /\ Cardinality(Matches(Stored(w1, first), k, v)) < Len(Stored(w1, first))
             /\ u.w.files[first] # w1.files[first]

\* the first partition, in index order, whose file holds a row with the key
FirstHolder(w, key_column, key_value) ==
    LET at == Holders(w, key_column, key_value)
    IN w.partitions[CHOOSE i \in at : \A j \in at : i <= j]

\* C16: when several partitions hold rows with the key, update_data patches
\* the first of them in index order and delete_data removes the matching rows
\* of that same partition; the rows with the key in later partitions stay.
C16_FirstHolderOnly ==
    ~last.raised =>
        \A k \in Columns, v \in KeyValues :
            LET w1 == Flushed(W)
                first == FirstHolder(w1, k, v)
                later == {w1.partitions[i] : i \in Holders(w1, k, v)} \ {first}
                old == Stored(w1, first)
                mask == [i \in 1..Len(old) |-> i \in Matches(old, k, v)]
                d == delete_data(W, k, v)
            IN (Cardinality(Holders(w1, k, v)) >= 2 /\ later # {}) =>
                  /\ ~d.raised
                  /\ \A p \in later : Stored(d.w, p) = Stored(w1, p)
                  /\ Stored(d.w, first) = KeepUnmatched(old, mask)
                  /\ \A patch \in Patches :
                        LET u == update_data(W, k, v, patch)
                        IN /\ ~u.raised
                           /\ \A p \in later : Stored(u.w, p) = Stored(w1, p)
                           /\ \A i \in Matches(old, k, v) :
                                 Stored(u.w, first)[i] = Patched(old[i], patch)

\* a cache ordered by recency after path was used with table: path last,
\* and the front entry dropped when the others already fill the cache
CachePutExpected(c, path, table) ==
    LET rest == CacheWithout(c, path)
        kept == IF Len(rest) >= CacheCapacity THEN Tail(rest) ELSE rest
    IN Append(kept, [path |-> path, table |-> table])

\* C17: the cache is ordered from least to most recently used.  A read that
\* hits moves the entry to the end and changes nothing else; a read that
\* misses and a write put the partition at the end, and when the cache is
\* over capacity the entry dropped is the one at the front.
C17_CacheLRUOrder ==
    ~last.raised =>
        /\ \A p \in DOMAIN files :
              LET rd == _read_partition(W, p)
              IN /\ ~rd.raised
                 /\ rd.table = files[p]
                 /\ rd.w.files = files
                 /\ IF p \in CachePaths(cache)
                    THEN rd.w.cache =
                            Append(CacheWithout(cache, p),
                                   [path |-> p, table |-> CacheTable(cache, p)])
                    ELSE rd.w.cache = CachePutExpected(cache, p, files[p])
        /\ \A p \in DOMAIN files \cup {_next_partition_path(W)} :
              \A r \in Rows :
                  _write_partition(W, <<r>>, p).cache =
                      CachePutExpected(cache, p, <<r>>)

\* C17's case: the cache is full and a partition outside it exists, so the
\* next miss drops the front entry.
C17_Witness ==
    /\ ~last.raised
    /\ Len(cache) = CacheCapacity
    /\ \E p \in DOMAIN files :
          /\ p \notin CachePaths(cache)
          /\ Head(cache).path \notin CachePaths(_read_partition(W, p).w.cache)
          /\ Len(_read_partition(W, p).w.cache) = CacheCapacity

RECURSIVE Value(_)
\* the number a digit string denotes
Value(s) == IF s = <<>> THEN 0 ELSE Value(SubSeq(s, 1, Len(s) - 1)) * 10 + s[Len(s)]

\* id keys to probe with: the stored ids, a smaller one, a larger one, and
\* "09", which denotes 9 but is another string
ProbeKeys == KeyValues \cup {<<8>>, <<1, 1>>, <<0, 9>>}

\* the ids, as numbers, of the rows stored under path
IdValues(w, path) == {Value(Stored(w, path)[i].id) : i \in 1..Len(Stored(w, path))}

\* C18: zero padding.  For every indexed partition with rows, the id bounds
\* of its zone map are the numerically smallest and largest id, padded to
\* width 8; the partition is a candidate for an id key exactly when the key's
\* number lies between them; and the rows a query returns have the key as
\* their unpadded id string, so "09" finds no row with id "9".
C18_ZeroPaddedIdOrder ==
    /\ \A p \in Range(partitions) \cap DOMAIN metadata :
          LET ids == IdValues(W, p)
          IN ids # {} =>
                /\ Len(metadata[p].id.min) = PadWidth
                /\ Len(metadata[p].id.max) = PadWidth
                /\ Value(metadata[p].id.min) = IntMin(ids)
                /\ Value(metadata[p].id.max) = IntMax(ids)
                /\ \A v \in ProbeKeys :
                      p \in Range(_trim_partitions(W, "id", <<PadKey("id", v)>>).valid)
                          <=> (IntMin(ids) <= Value(v) /\ Value(v) <= IntMax(ids))
    /\ ~last.raised =>
          \A v \in ProbeKeys :
              LET q == query_data(W, "id", <<v>>)
              IN ~q.raised => \A i \in 1..Len(q.results) : q.results[i].id = v

\* C18's case: one partition holds ids 9 and 10, another only id 9 and is
\* pruned for key 10, and a partition holding id 9 is a candidate for "09".
C18_Witness ==
    /\ ~last.raised
    /\ \E p \in Range(partitions) \cap DOMAIN metadata : IdValues(W, p) = {9, 10}
    /\ \E p \in Range(partitions) \cap DOMAIN metadata :
          /\ IdValues(W, p) = {9}
          /\ p \notin Range(_trim_partitions(W, "id", <<PadKey("id", <<1, 0>>)>>).valid)
          /\ p \in Range(_trim_partitions(W, "id", <<PadKey("id", <<0, 9>>)>>).valid)
          /\ query_data(W, "id", <<<<0, 9>>>>).results = <<>>

\* C19: index integrity.  No id is twice in the index, every id in the index
\* has a stored file and a zone-map entry, and so no update_data, delete_data
\* or query_data on a stored column fails reading an indexed partition.
C19_IndexIntegrity ==
    /\ \A i, j \in 1..Len(partitions) : partitions[i] = partitions[j] => i = j
    /\ \A p \in Range(partitions) : p \in DOMAIN files /\ p \in DOMAIN metadata
    /\ last.key_column \in Columns /\ last.keys # <<>> => ~last.raised

\* C20: empty key list.  In every reachable state query_data(key_column, [])
\* raises no error and returns the empty list.
C20_EmptyKeyListReturnsEmpty ==
    ~last.raised =>
        \A k \in Columns :
            LET q == query_data(W, k, <<>>)
            IN ~q.raised /\ q.results = <<>>
====
